---- MODULE Spec2Model ----
(***************************************************************************)
(* A model of snappy/database.py: the ManifoldTable view over one sqlite   *)
(* relation (filter, find, siblings, identify, __getitem__), the blob      *)
(* header decode of the row factories and the packed cusp permutation.     *)
(*                                                                         *)
(* A row is a record [id, hash, cusps, tri]: the columns id, hash and      *)
(* cusps of the relation and the triangulation stored in its blob.  The    *)
(* external Manifold capability is an oracle: isoms[id] is the list of     *)
(* isometries from the query to row id (each entry is the value of its     *)
(* extends_to_link()), raises[id] says whether is_isometric_to throws      *)
(* RuntimeError on that row, and randomize() picks any triangulation of    *)
(* the query's manifold.                                                   *)
(***************************************************************************)
EXTENDS Integers, Sequences, FiniteSets, TLC

\* ---------------------------------------------------------------- bounds
MaxRows == 2

\* The retry ceiling of the equality fallback: range(100).
Rounds == 100

\* Python values that may be None, an int or a float (a float is modelled
\* by the integer it equals).
None == [t |-> "none", v |-> 0]
PyInt(v) == [t |-> "int", v |-> v]
PyFloat(v) == [t |-> "float", v |-> v]
\* "if x:" for such a value: None and zero are falsy.
Truthy(x) == x.t # "none" /\ x.v # 0

\* The name column: row k of a table is called Names[k].
Names == <<"m1", "m2", "m3", "m4", "m5", "m6">>
Hashes == {1, 2}
CuspCounts == {1, 2}
\* "q0" and "q1" are the triangulations of the query's manifold that
\* randomize() can produce; "other" is any other triangulation.
QueryTris == {"q0", "q1"}
OtherTri == "other"

VARIABLES rows, filter, length,
          query, extends_to_link, isoms, raises,
          pc, mfld, sibs, idx, round, tested, compared, randomized, result,
          blob, encoded_perm, cusps_of_M, s, factory, payload,
          index, out,
          tables, name, lookup,
          find_args, find_result

tableVars == <<rows, filter, length>>
oracleVars == <<query, extends_to_link, isoms, raises>>
identifyVars == <<pc, mfld, sibs, idx, round, tested, compared, randomized, result>>
\* A stored row's triangulation blob and perm column, the number of cusps of
\* the manifold built from it, the sequence packed into perm, and what the
\* row factory and OneCensusManifold made of them.
codecVars == <<blob, encoded_perm, cusps_of_M, s, factory, payload>>
\* The candidate tables of a OneCensusManifold (each the rows of one view,
\* in storage order), the name it is called with, and how the lookup ended.
lookupVars == <<tables, name, lookup>>
\* The arguments of one call of find and what it returned.
findVars == <<find_args, find_result>>
\* The key of a __getitem__ call and what it returned.
indexVars == <<index, out>>
vars == <<tableVars, oracleVars, identifyVars, codecVars, indexVars,
         lookupVars, findVars>>

\* ------------------------------------------------------------ sequences
Range(seq) == {seq[k] : k \in 1..Len(seq)}

RECURSIVE SortBy(_, _)
\* The rows of the set S in ascending order of column col (order by col).
SortBy(S, col) ==
    IF S = {} THEN <<>>
    ELSE LET m == CHOOSE r \in S : \A o \in S :
                      \/ r[col] < o[col]
                      \/ (r[col] = o[col] /\ r.id <= o.id)
         IN <<m>> \o SortBy(S \ {m}, col)

\* The first lim elements of seq; a negative lim is no limit (sqlite's LIMIT).
Limit(seq, lim) ==
    IF lim < 0 \/ lim >= Len(seq) THEN seq ELSE SubSeq(seq, 1, lim)

\* ---------------------------------------------------------------- table
\* One condition of a where clause: column op value, op one of = >= <.
Cond(col, op, val) == [col |-> col, op |-> op, val |-> val]

\* _configure: each recognized keyword contributes an equality clause and
\* the clauses are joined with ' and '; no keyword gives the empty filter.
Configure(kwargs) ==
    (IF "num_cusps" \in DOMAIN kwargs
        THEN <<Cond("cusps", "=", kwargs["num_cusps"])>> ELSE <<>>)
    \o (IF "cusps" \in DOMAIN kwargs
        THEN <<Cond("cusps", "=", kwargs["cusps"])>> ELSE <<>>)

\* A row satisfies one condition.
Holds(row, c) ==
    CASE c.op = "=" -> row[c.col] = c.val
      [] c.op = ">=" -> row[c.col] >= c.val
      [] c.op = "<" -> row[c.col] < c.val

\* A row satisfies a conjunction of conditions.
Satisfies(row, conds) == \A k \in 1..Len(conds) : Holds(row, conds[k])

\* A where clause is SQL text, and SQL reads "a or b and c" as
\* a or (b and c): a clause is the sequence of its or-alternatives, each a
\* conjunction of conditions.
Where(conds) == <<conds>>
Or(w1, w2) == w1 \o w2

\* where + ' and ' + flt: the joined text extends the last alternative.
AndFilter(where, flt) == [where EXCEPT ![Len(where)] = @ \o flt]

\* A row satisfies a where clause: one of its alternatives holds.
Matches(row, where) == \E a \in 1..Len(where) : Satisfies(row, where[a])

\* _get_length: select count(*) from table [where filter].
GetLength(rs, flt) == Cardinality({k \in 1..Len(rs) : Satisfies(rs[k], flt)})

\* Mutant of Find: the table's filter is not joined to the where clause.
FindIgnoringFilter(where, order_by, limit) ==
    LET hits == {rows[k] : k \in {j \in 1..Len(rows) : Matches(rows[j], where)}}
        ordered == SortBy(hits, order_by)
    IN IF limit = None THEN ordered ELSE Limit(ordered, limit.v)

\* find(where, order_by, limit): where + ' and ' + filter, ordered, limited.
Find(where, order_by, limit) ==
    LET where_clause == IF filter # <<>> THEN AndFilter(where, filter) ELSE where
        hits == {rows[k] : k \in {j \in 1..Len(rows) : Matches(rows[j], where_clause)}}
        ordered == SortBy(hits, order_by)
    IN IF limit = None THEN ordered ELSE Limit(ordered, limit.v)

\* mfld_hash(mfld): the isometry signature of a manifold.
MfldHash(m) == m.hash

\* Mutant of Siblings: the bucket is read in descending id order.
SiblingsDescending(m) ==
    LET up == Find(Where(<<Cond("hash", "=", MfldHash(m))>>), "id", None)
    IN [k \in 1..Len(up) |-> up[Len(up) + 1 - k]]

\* siblings(mfld): find("hash = X'<hash>'").
Siblings(m) == Find(Where(<<Cond("hash", "=", MfldHash(m))>>), "id", None)

\* ------------------------------------------------------------- identify
\* The outcome of a call into the Manifold capability: a value, or a
\* RuntimeError raised instead of one.
Value(v) == [raised |-> FALSE, val |-> v]
RuntimeError == [raised |-> TRUE, val |-> FALSE]

\* mfld.is_isometric_to(N): a RuntimeError, or whether an isometry exists.
IsIsometricTo(N) == IF raises[N.id] THEN RuntimeError ELSE Value(isoms[N.id] # <<>>)

\* mfld.is_isometric_to(N, True): a RuntimeError, or the list of isometries.
IsometriesTo(N) == IF raises[N.id] THEN RuntimeError ELSE Value(isoms[N.id])

\* True in [i.extends_to_link() for i in isoms]
SomeExtends(list) == \E k \in 1..Len(list) : list[k]

\* Mutant of TestSibling: the flag is read the wrong way round.
TestSiblingFlagSwapped(N, etl) ==
    IF etl
    THEN IsIsometricTo(N)
    ELSE LET r == IsometriesTo(N)
         IN IF r.raised THEN RuntimeError ELSE Value(SomeExtends(r.val))

\* The body of the try block for one sibling: a RuntimeError, TRUE (return
\* N) or FALSE (fall through to the next sibling).
TestSibling(N, etl) ==
    IF ~etl
    THEN IsIsometricTo(N)
    ELSE LET r == IsometriesTo(N)
         IN IF r.raised THEN RuntimeError ELSE Value(SomeExtends(r.val))

\* mfld == N: the two triangulations are identical.
SameTriangulation(m, N) == m.tri = N.tri

\* not False in mfld.cusp_info('is_complete')
AllComplete(m) == \A k \in 1..Len(m.is_complete) : m.is_complete[k]

\* The first sibling equal to m in one pass of "for N in sibs", or 0 (no row).
FirstEqual(m, ss) ==
    IF \E k \in 1..Len(ss) : SameTriangulation(m, ss[k])
    THEN ss[CHOOSE k \in 1..Len(ss) :
              /\ SameTriangulation(m, ss[k])
              /\ \A j \in 1..(k - 1) : ~SameTriangulation(m, ss[j])].id
    ELSE 0

Pending == [kind |-> "pending", id |-> 0, phase |-> "none"]
Return(kind, id, phase) == [kind |-> kind, id |-> id, phase |-> phase]

\* mfld = mfld.copy(); sibs = self.siblings(mfld); return False if empty.
IdentifyStart ==
    /\ pc = "start"
    /\ mfld' = query
    /\ sibs' = Siblings(query)
    /\ IF Len(sibs') = 0
       THEN /\ result' = Return("False", 0, "hash")
            /\ pc' = "done"
       ELSE /\ result' = result
            /\ pc' = "isometry"
    /\ idx' = 1
    /\ UNCHANGED <<tableVars, oracleVars, lookupVars, findVars, codecVars, indexVars, round, tested, compared, randomized>>

\* Mutant of IsometryStep: no except clause, a RuntimeError leaves identify.
IsometryStepUncaught ==
    /\ pc = "isometry"
    /\ idx <= Len(sibs)
    /\ LET N == sibs[idx]
           t == TestSibling(N, extends_to_link)
       IN /\ tested' = Append(tested, N.id)
          /\ IF t.raised
             THEN /\ result' = Return("RuntimeError", 0, "isometry")
                  /\ pc' = "done"
                  /\ idx' = idx
             ELSE IF t.val
             THEN /\ result' = Return("row", N.id, "isometry")
                  /\ pc' = "done"
                  /\ idx' = idx
             ELSE /\ result' = result
                  /\ pc' = pc
                  /\ idx' = idx + 1
    /\ UNCHANGED <<tableVars, oracleVars, lookupVars, findVars, codecVars, indexVars, mfld, sibs, round, compared, randomized>>

\* One iteration of "for N in sibs" of the isometry phase.
IsometryStep ==
    /\ pc = "isometry"
    /\ idx <= Len(sibs)
    /\ LET N == sibs[idx]
           t == TestSibling(N, extends_to_link)
       IN /\ tested' = Append(tested, N.id)
          /\ IF ~t.raised /\ t.val
             THEN /\ result' = Return("row", N.id, "isometry")
                  /\ pc' = "done"
                  /\ idx' = idx
             ELSE \* FALSE, or RuntimeError caught by "except RuntimeError: pass"
                  /\ result' = result
                  /\ pc' = pc
                  /\ idx' = idx + 1
    /\ UNCHANGED <<tableVars, oracleVars, lookupVars, findVars, codecVars, indexVars, mfld, sibs, round, compared, randomized>>

\* The isometry loop is exhausted: enter the equality fallback only when
\* every cusp of the query is complete, otherwise return None.
FallbackEnter ==
    /\ pc = "isometry"
    /\ idx > Len(sibs)
    /\ IF AllComplete(mfld)
       THEN /\ pc' = "fallback"
            /\ result' = result
       ELSE /\ pc' = "done"
            /\ result' = Return("None", 0, "isometry")
    /\ round' = 0
    /\ UNCHANGED <<tableVars, oracleVars, lookupVars, findVars, codecVars, indexVars, mfld, sibs, idx, tested, compared, randomized>>

\* Mutant of FallbackRound: no copy was taken, randomize acts on the
\* caller's object.
FallbackRoundOnQuery ==
    /\ pc = "fallback"
    /\ round < Rounds
    /\ LET eq == FirstEqual(mfld, sibs)
       IN IF eq # 0
          THEN /\ result' = Return("row", eq, "equality")
               /\ pc' = "done"
               /\ compared' = compared + (CHOOSE k \in 1..Len(sibs) : sibs[k].id = eq)
               /\ UNCHANGED <<mfld, query, round, randomized>>
          ELSE /\ \E t \in QueryTris : /\ mfld' = [mfld EXCEPT !.tri = t]
                                       /\ query' = [query EXCEPT !.tri = t]
               /\ round' = round + 1
               /\ compared' = compared + Len(sibs)
               /\ randomized' = randomized + 1
               /\ UNCHANGED <<result, pc>>
    /\ UNCHANGED <<tableVars, extends_to_link, isoms, raises, lookupVars, findVars,
                   codecVars, indexVars, sibs, idx, tested>>

\* One round of "for n in range(100)": compare with every sibling, return
\* the first equal one, otherwise randomize the copy once.
FallbackRound ==
    /\ pc = "fallback"
    /\ round < Rounds
    /\ LET eq == FirstEqual(mfld, sibs)
       IN IF eq # 0
          THEN /\ result' = Return("row", eq, "equality")
               /\ pc' = "done"
               /\ compared' = compared + (CHOOSE k \in 1..Len(sibs) : sibs[k].id = eq)
               /\ UNCHANGED <<mfld, round, randomized>>
          ELSE /\ \E t \in QueryTris : mfld' = [mfld EXCEPT !.tri = t]
               /\ round' = round + 1
               /\ compared' = compared + Len(sibs)
               /\ randomized' = randomized + 1
               /\ UNCHANGED <<result, pc>>
    /\ UNCHANGED <<tableVars, oracleVars, lookupVars, findVars, codecVars, indexVars, sibs, idx, tested>>

\* Mutant of FallbackExhausted: the loop gives up one round early.
FallbackExhaustedEarly ==
    /\ pc = "fallback"
    /\ round >= Rounds - 1
    /\ result' = Return("None", 0, "equality")
    /\ pc' = "done"
    /\ UNCHANGED <<tableVars, oracleVars, lookupVars, findVars, codecVars, indexVars, mfld, sibs, idx, round, tested, compared, randomized>>

\* range(100) is exhausted: return None.
FallbackExhausted ==
    /\ pc = "fallback"
    /\ round >= Rounds
    /\ result' = Return("None", 0, "equality")
    /\ pc' = "done"
    /\ UNCHANGED <<tableVars, oracleVars, lookupVars, findVars, codecVars, indexVars, mfld, sibs, idx, round, tested, compared, randomized>>

\* ------------------------------------------------------------- getitem
is_int(x) == x.t = "int"
is_int_or_none(x) == x.t \in {"int", "none"}
is_float_or_none(x) == x.t \in {"float", "none"}

\* The keys of __getitem__.
Slice(start, stop, step) == [type |-> "slice", start |-> start, stop |-> stop, step |-> step]
IntKey(i) == [type |-> "int", i |-> i]
StrKey(str) == [type |-> "str", name |-> str]
OtherKey == [type |-> "other"]

\* What __getitem__ gives back: the rows (by id, in the order returned), one
\* row, or the exception raised.
RowsOut(ids) == [set |-> TRUE, kind |-> "rows", ids |-> ids]
RowOut(id) == [set |-> TRUE, kind |-> "row", ids |-> <<id>>]
Raise(exc) == [set |-> TRUE, kind |-> exc, ids |-> <<>>]

Ids(rs) == [k \in 1..Len(rs) |-> rs[k].id]

\* select ... where conds, without an order by: the rows in storage order.
Select(conds) == SelectSeq(rows, LAMBDA r : Satisfies(r, conds))

\* cursor.fetchmany(k) thrown away: the rows left on the cursor (a negative
\* k never equals the row counter, so every row is fetched).
Discard(seq, k) ==
    IF k < 0 \/ k >= Len(seq) THEN <<>> ELSE SubSeq(seq, k + 1, Len(seq))

\* Slice by volume (both bounds float or None).
VolumeSlice(start, stop) ==
    LET conditions ==
            filter
            \o (IF Truthy(start) THEN <<Cond("volume", ">=", start.v)>> ELSE <<>>)
            \o (IF Truthy(stop) THEN <<Cond("volume", "<", stop.v)>> ELSE <<>>)
    IN RowsOut(Ids(Select(conditions)))

\* Slice by position (both bounds int or None).
OrdinalSlice(start0, stop0) ==
    LET start == IF Truthy(start0) /\ start0.v < 0
                 THEN PyInt(length + start0.v) ELSE start0
        stop == IF Truthy(stop0) /\ stop0.v < 0
                THEN PyInt(length + stop0.v) ELSE stop0
    IN IF filter = <<>>
       THEN LET from == IF start = None THEN 0 ELSE start.v
                found == Select(<<Cond("id", ">=", from + 1)>>)
            IN RowsOut(Ids(IF Truthy(stop) THEN Limit(found, stop.v - from)
                           ELSE found))
       ELSE LET found == Select(filter)
                cursor == IF Truthy(stop) THEN Limit(found, stop.v) ELSE found
            IN RowsOut(Ids(IF Truthy(start) THEN Discard(cursor, start.v)
                           ELSE cursor))

\* __getitem__(index)
Getitem(key) ==
    CASE key.type = "slice" ->
            IF Truthy(key.step) THEN Raise("IndexError")
            ELSE IF is_float_or_none(key.start) /\ is_float_or_none(key.stop)
            THEN VolumeSlice(key.start, key.stop)
            ELSE IF is_int_or_none(key.start) /\ is_int_or_none(key.stop)
            THEN OrdinalSlice(key.start, key.stop)
            ELSE Raise("IndexError")
      [] key.type = "int" ->
            LET matches == Find(Where(<<Cond("id", "=", key.i + 1)>>), "id", None)
            IN IF Len(matches) # 1 THEN Raise("IndexError")
               ELSE RowOut(matches[1].id)
      [] key.type = "str" ->
            LET matches == Find(Where(<<Cond("name", "=", key.name)>>), "id", None)
            IN IF Len(matches) # 1 THEN Raise("KeyError")
               ELSE RowOut(matches[1].id)
      [] OTHER -> Raise("IndexError")

\* One call T[index].
GetitemCall ==
    /\ ~out.set
    /\ out' = Getitem(index)
    /\ UNCHANGED <<tableVars, oracleVars, lookupVars, findVars, identifyVars, codecVars, index>>

\* ---------------------------------------------------------------- codec
USE_COBS == 128
USE_STRING == 64
CUSP_MASK == 63
\* One packed cusp index is 4 bits wide: (n << 2) and & 0xf.
PermShift == 4
PermMask == 15

RECURSIVE Pow2(_)
Pow2(k) == IF k = 0 THEN 1 ELSE 2 * Pow2(k - 1)

\* x >> k for 0 <= x < 2^31: every bit is gone once k reaches 31.
Shr(x, k) == IF k >= 31 THEN 0 ELSE x \div Pow2(k)

\* header & mask for a mask of one bit (its value), as 0 or the bit.
BitAnd(header, bit) == ((header \div bit) % 2) * bit

\* buf[a:b] and buf[a:] of Python, on a 1-based sequence.
PySlice(buf, a, b) ==
    LET lo == IF a > Len(buf) THEN Len(buf) ELSE a
        hi == IF b > Len(buf) THEN Len(buf) ELSE b
    IN IF hi <= lo THEN <<>> ELSE SubSeq(buf, lo + 1, hi)
PyFrom(buf, a) == PySlice(buf, a, Len(buf))

NoPerm == [present |-> FALSE, val |-> <<>>]
NoCobs == [present |-> FALSE, bytes |-> <<>>]
Unset == [set |-> FALSE]

\* Mutant of DecodePerm: the shift is n << 1 instead of n << 2.
DecodePermNarrowShift(encoded, num) ==
    IF Truthy(encoded)
    THEN [present |-> TRUE,
          val |-> [n \in 1..num |-> Shr(encoded.v, 2 * (n - 1)) % (PermMask + 1)]]
    ELSE NoPerm

\* if encoded_perm: perm = [(encoded_perm >> (n<<2)) & 0xf for n in range(num)]
\* (a null or zero column is falsy: no perm).
DecodePerm(encoded, num) ==
    IF Truthy(encoded)
    THEN [present |-> TRUE,
          val |-> [n \in 1..num |->
                      Shr(encoded.v, PermShift * (n - 1)) % (PermMask + 1)]]
    ELSE NoPerm

\* The integer with field n of seq at bits 4n..4n+3 (what the perm column
\* holds for the cusp permutation seq).
RECURSIVE Pack(_)
Pack(seq) ==
    IF seq = <<>> THEN 0
    ELSE Head(seq) + Pow2(PermShift) * Pack(Tail(seq))

\* _manifold_factory and _finalize: what the row factory hands to the
\* Manifold capability (the body to _from_string or _from_bytes, the bytes
\* to decode_matrices, the perm to _reindex_cusps).
ManifoldFactory ==
    /\ ~factory.set
    /\ LET header == blob[1]
           use_cobs == BitAnd(header, USE_COBS)
           use_string == BitAnd(header, USE_STRING)
           num_cusps == header % (CUSP_MASK + 1)
       IN factory' =
            [set |-> TRUE,
             use_string |-> use_string # 0,
             body |-> IF use_string # 0 THEN PyFrom(blob, 1)
                      ELSE PyFrom(blob, 4 * num_cusps + 1),
             cobs |-> IF use_string = 0 /\ use_cobs # 0
                      THEN [present |-> TRUE,
                            bytes |-> PySlice(blob, 1, 4 * num_cusps + 1)]
                      ELSE NoCobs,
             perm |-> DecodePerm(encoded_perm, cusps_of_M)]
    /\ UNCHANGED <<tableVars, oracleVars, lookupVars, findVars, identifyVars, indexVars,
                   blob, encoded_perm, cusps_of_M, s, payload>>

\* Lines 358-374 of OneCensusManifold.__call__, on the columns of the row
\* it found: the tuple (use_string, cobs, perm, triangulation_data).
Decoded(buf, encoded) ==
    LET header == buf[1]
        use_cobs == BitAnd(header, USE_COBS)
        use_string == BitAnd(header, USE_STRING)
        num_cusps == header % (CUSP_MASK + 1)
    IN [set |-> TRUE,
        use_string |-> use_string # 0,
        cobs |-> IF use_string = 0 /\ use_cobs # 0
                 THEN [present |-> TRUE,
                       bytes |-> PySlice(buf, 1, 4 * num_cusps + 1)]
                 ELSE NoCobs,
        perm |-> DecodePerm(encoded, num_cusps),
        triangulation_data |-> IF use_string # 0 THEN PyFrom(buf, 1)
                               ELSE PyFrom(buf, 4 * num_cusps + 1)]

\* OneCensusManifold.__call__ on the row it found.
OneCensusDecode ==
    /\ ~payload.set
    /\ payload' = Decoded(blob, encoded_perm)
    /\ UNCHANGED <<tableVars, oracleVars, lookupVars, findVars, identifyVars, indexVars,
                   blob, encoded_perm, cusps_of_M, s, factory>>

CodecIdle ==
    /\ blob = <<0>>
    /\ encoded_perm = None
    /\ cusps_of_M = 0
    /\ s = <<>>
    /\ factory = Unset
    /\ payload = Unset

IndexIdle ==
    /\ index = Unset
    /\ out = Unset

LookupIdle ==
    /\ tables = <<>>
    /\ name = Names[1]
    /\ lookup = Unset

FindIdle ==
    /\ find_args = Unset
    /\ find_result = Unset

\* cursor.fetchmany(2) on "select triangulation, perm from <table> where
\* name='<name>'": the first two rows of the table with that name.
FetchTwo(table, str) == Limit(SelectSeq(table, LAMBDA r : r.name = str), 2)

RECURSIVE Scan(_)
\* "for table in self._tables" from position t on: the rows fetched last,
\* how the loop was left and how many tables were queried.
Scan(t) ==
    LET fetched == FetchTwo(tables[t], name)
    IN IF Len(fetched) > 1
          THEN [left |-> "ValueError", fetched |-> fetched, queried |-> t]
       ELSE IF Len(fetched) = 1
          THEN [left |-> "break", fetched |-> fetched, queried |-> t]
       ELSE IF t = Len(tables)
          THEN [left |-> "exhausted", fetched |-> fetched, queried |-> t]
       ELSE Scan(t + 1)

\* How a lookup ended: a payload, or the exception it raised.
LookedUp(kind, queried) == [set |-> TRUE, kind |-> kind, queried |-> queried]

\* One call OneCensusManifold(tables)(name). With no table the loop body
\* never runs and "len(rows)" reads the unbound local rows.
OneCensusCall ==
    /\ ~lookup.set
    /\ IF tables = <<>>
       THEN /\ lookup' = LookedUp("UnboundLocalError", 0)
            /\ UNCHANGED <<blob, encoded_perm, payload>>
       ELSE LET loop == Scan(1)
            IN IF loop.left = "ValueError"
                  THEN /\ lookup' = LookedUp("ValueError", loop.queried)
                       /\ UNCHANGED <<blob, encoded_perm, payload>>
               ELSE IF Len(loop.fetched) = 0
                  THEN /\ lookup' = LookedUp("KeyError", loop.queried)
                       /\ UNCHANGED <<blob, encoded_perm, payload>>
               ELSE /\ lookup' = LookedUp("payload", loop.queried)
                    /\ blob' = loop.fetched[1].triangulation
                    /\ encoded_perm' = loop.fetched[1].perm
                    /\ payload' = Decoded(loop.fetched[1].triangulation,
                                          loop.fetched[1].perm)
    /\ UNCHANGED <<tableVars, oracleVars, findVars, identifyVars, indexVars,
                   tables, name, cusps_of_M, s, factory>>

\* One call T.find(where, order_by, limit).
FindCall ==
    /\ find_args.set /\ ~find_result.set
    /\ find_result' = [set |-> TRUE,
                       rows |-> Find(find_args.where, find_args.order_by,
                                     find_args.limit)]
    /\ UNCHANGED <<tableVars, oracleVars, lookupVars, identifyVars, codecVars,
                   indexVars, find_args>>

\* One call T.random(): an index drawn from range(len(T)), then T[index];
\* randrange(0) raises ValueError.
RandomCall ==
    /\ index = Unset /\ ~out.set
    /\ IF length = 0
       THEN index' = index /\ out' = Raise("ValueError")
       ELSE \E i \in 0..(length - 1) :
               index' = IntKey(i) /\ out' = Getitem(IntKey(i))
    /\ UNCHANGED <<tableVars, oracleVars, lookupVars, findVars, identifyVars, codecVars>>

\* ------------------------------------------------- specification: identify
RowsOfLength(N) ==
    {rs \in [1..N -> [id : 1..N, name : Range(Names), hash : Hashes,
                      cusps : CuspCounts, volume : {1},
                      tri : QueryTris \cup {OtherTri}]] :
        \A k \in 1..N : rs[k].id = k /\ rs[k].name = Names[k]}

IsomLists == {<<>>, <<FALSE>>, <<FALSE, TRUE>>}

\* What the catalogue and the Manifold oracle can be for a query of hash 1:
\* the hash is an isometry invariant, a row that is not isometric to the
\* query has none of the query's triangulations, and a row whose
\* triangulation is one of the query's is isometric to it.
Consistent(q, rs, is, ra) ==
    \A k \in 1..Len(rs) :
        /\ rs[k].hash # q.hash => (is[k] = <<>> /\ ~ra[k])
        /\ is[k] = <<>> <=> rs[k].tri = OtherTri

IdentifyInit ==
    /\ \E N \in 0..MaxRows : rows \in RowsOfLength(N)
    /\ \E kw \in {<<>>} \cup [{"num_cusps"} -> {1}] : filter = Configure(kw)
    /\ length = GetLength(rows, filter)
    /\ query \in [hash : {1}, tri : {"q0"}, is_complete : {<<TRUE>>, <<FALSE>>}]
    /\ extends_to_link \in BOOLEAN
    /\ isoms \in [1..Len(rows) -> IsomLists]
    /\ raises \in [1..Len(rows) -> BOOLEAN]
    /\ Consistent(query, rows, isoms, raises)
    /\ pc = "start"
    /\ mfld = query
    /\ sibs = <<>>
    /\ idx = 0
    /\ round = 0
    /\ tested = <<>>
    /\ compared = 0
    /\ randomized = 0
    /\ result = Pending
    /\ CodecIdle
    /\ IndexIdle
    /\ LookupIdle
    /\ FindIdle

IdentifyNext ==
    \/ IdentifyStart
    \/ IsometryStep
    \/ FallbackEnter
    \/ FallbackRound
    \/ FallbackExhausted

SpecIdentify == IdentifyInit /\ [][IdentifyNext]_vars /\ WF_vars(IdentifyNext)

\* --------------------------------------------------- specification: codec
MaxPayload == 9
MaxCusps == 3

\* A blob: a header byte and up to MaxPayload bytes after it (byte k of
\* the payload has value k, so that a slice shows where it was cut).
Blobs ==
    {<<h>> \o [k \in 1..L |-> k] : h \in 0..255, L \in 0..MaxPayload}

CodecInit ==
    /\ blob \in Blobs
    /\ encoded_perm \in {None, PyInt(0), PyInt(16)}
    /\ cusps_of_M \in 0..2
    /\ s = <<>>
    /\ factory = Unset
    /\ payload = Unset
    /\ IndexIdle
    /\ LookupIdle
    /\ FindIdle
    /\ rows = <<>> /\ filter = <<>> /\ length = 0
    /\ query = [hash |-> 1, tri |-> "q0", is_complete |-> <<TRUE>>]
    /\ extends_to_link = FALSE
    /\ isoms = <<>> /\ raises = <<>>
    /\ pc = "idle" /\ mfld = query /\ sibs = <<>> /\ idx = 0 /\ round = 0
    /\ tested = <<>> /\ compared = 0 /\ randomized = 0 /\ result = Pending

CodecNext ==
    \/ ManifoldFactory
    \/ OneCensusDecode

SpecCodec == CodecInit /\ [][CodecNext]_vars

\* A row whose perm column packs the sequence s of num_cusps fields, each
\* in 0..15, and whose blob header carries num_cusps.
PermInit ==
    /\ \E num \in 0..MaxCusps :
          /\ s \in [1..num -> 0..PermMask]
          /\ blob = <<num>>
          /\ cusps_of_M = num
    /\ encoded_perm = PyInt(Pack(s))
    /\ factory = Unset
    /\ payload = Unset
    /\ IndexIdle
    /\ LookupIdle
    /\ FindIdle
    /\ rows = <<>> /\ filter = <<>> /\ length = 0
    /\ query = [hash |-> 1, tri |-> "q0", is_complete |-> <<TRUE>>]
    /\ extends_to_link = FALSE
    /\ isoms = <<>> /\ raises = <<>>
    /\ pc = "idle" /\ mfld = query /\ sibs = <<>> /\ idx = 0 /\ round = 0
    /\ tested = <<>> /\ compared = 0 /\ randomized = 0 /\ result = Pending

SpecPerm == PermInit /\ [][CodecNext]_vars

\* ------------------------------------------------- specification: getitem
MaxSliceRows == 3
MaxBound == 4
MaxVolume == 2

\* A table of N rows with the gapless ids 1..N in storage order.
SliceTables(N) ==
    {rs \in [1..N -> [id : 1..N, name : Range(Names), hash : {1},
                      cusps : CuspCounts, volume : 1..MaxVolume,
                      tri : {OtherTri}]] :
        \A k \in 1..N : rs[k].id = k /\ rs[k].name = Names[k]}

SliceBounds ==
    {None} \cup {PyInt(v) : v \in (0 - MaxBound)..MaxBound}
           \cup {PyFloat(v) : v \in 0..(MaxVolume + 1)}

Keys ==
    {Slice(a, b, st) : a \in SliceBounds, b \in SliceBounds, st \in {None, PyInt(2)}}
    \cup {IntKey(i) : i \in (0 - 1)..MaxBound}
    \cup {StrKey(Names[k]) : k \in 1..MaxBound}
    \cup {OtherKey}

SliceInit ==
    /\ \E N \in 0..MaxSliceRows : rows \in SliceTables(N)
    /\ \E kw \in {<<>>} \cup [{"num_cusps"} -> {1}] : filter = Configure(kw)
    /\ length = GetLength(rows, filter)
    /\ index \in Keys
    /\ out = Unset
    /\ CodecIdle
    /\ LookupIdle
    /\ FindIdle
    /\ query = [hash |-> 1, tri |-> "q0", is_complete |-> <<TRUE>>]
    /\ extends_to_link = FALSE
    /\ isoms = [k \in 1..Len(rows) |-> <<>>]
    /\ raises = [k \in 1..Len(rows) |-> FALSE]
    /\ pc = "idle" /\ mfld = query /\ sibs = <<>> /\ idx = 0 /\ round = 0
    /\ tested = <<>> /\ compared = 0 /\ randomized = 0 /\ result = Pending

SliceNext == GetitemCall

SpecSlice == SliceInit /\ [][SliceNext]_vars

\* -------------------------------------------------- specification: random
RandomInit ==
    /\ \E N \in 0..MaxSliceRows : rows \in SliceTables(N)
    /\ \E kw \in {<<>>} \cup [{"num_cusps"} -> {1}] : filter = Configure(kw)
    /\ length = GetLength(rows, filter)
    /\ IndexIdle
    /\ CodecIdle
    /\ LookupIdle
    /\ FindIdle
    /\ query = [hash |-> 1, tri |-> "q0", is_complete |-> <<TRUE>>]
    /\ extends_to_link = FALSE
    /\ isoms = [k \in 1..Len(rows) |-> <<>>]
    /\ raises = [k \in 1..Len(rows) |-> FALSE]
    /\ pc = "idle" /\ mfld = query /\ sibs = <<>> /\ idx = 0 /\ round = 0
    /\ tested = <<>> /\ compared = 0 /\ randomized = 0 /\ result = Pending

RandomNext == RandomCall

SpecRandom == RandomInit /\ [][RandomNext]_vars

\* -------------------------------------------------- specification: lookup
MaxTables == 2
MaxTableRows == 3

\* The rows of one view: a name, a triangulation blob (second byte tells
\* the rows apart) and a perm column.
ViewRows ==
    [name : {Names[1], Names[2]},
     triangulation : {<<0, 1>>, <<USE_STRING, 2>>},
     perm : {None}]

Views == UNION {[1..N -> ViewRows] : N \in 0..MaxTableRows}

LookupInit ==
    /\ \E L \in 0..MaxTables : tables \in [1..L -> Views]
    /\ name \in {Names[1], Names[2]}
    /\ lookup = Unset
    /\ CodecIdle
    /\ IndexIdle
    /\ FindIdle
    /\ rows = <<>> /\ filter = <<>> /\ length = 0
    /\ query = [hash |-> 1, tri |-> "q0", is_complete |-> <<TRUE>>]
    /\ extends_to_link = FALSE
    /\ isoms = <<>> /\ raises = <<>>
    /\ pc = "idle" /\ mfld = query /\ sibs = <<>> /\ idx = 0 /\ round = 0
    /\ tested = <<>> /\ compared = 0 /\ randomized = 0 /\ result = Pending

LookupNext == OneCensusCall

SpecLookup == LookupInit /\ [][LookupNext]_vars

\* ---------------------------------------------------- specification: find
MaxLimit == 2

\* Where clauses without "or": one comparison on cusps or on volume.
Comparisons ==
    {Where(<<Cond("cusps", "=", c)>>) : c \in CuspCounts}
    \cup {Where(<<Cond("volume", op, v)>>) : op \in {">=", "<"}, v \in 1..MaxVolume}

\* The where clauses find is called with: a comparison, or "a or b".
Predicates == Comparisons \cup {Or(a, b) : a \in Comparisons, b \in Comparisons}

FindInit ==
    /\ \E N \in 0..MaxSliceRows : rows \in SliceTables(N)
    /\ \E kw \in {<<>>} \cup [{"num_cusps"} -> {1}] : filter = Configure(kw)
    /\ length = GetLength(rows, filter)
    /\ find_args \in [set : {TRUE}, where : Predicates,
                      order_by : {"id", "volume"},
                      limit : {None} \cup {PyInt(n) : n \in 0..MaxLimit}]
    /\ find_result = Unset
    /\ IndexIdle
    /\ CodecIdle
    /\ LookupIdle
    /\ query = [hash |-> 1, tri |-> "q0", is_complete |-> <<TRUE>>]
    /\ extends_to_link = FALSE
    /\ isoms = [k \in 1..Len(rows) |-> <<>>]
    /\ raises = [k \in 1..Len(rows) |-> FALSE]
    /\ pc = "idle" /\ mfld = query /\ sibs = <<>> /\ idx = 0 /\ round = 0
    /\ tested = <<>> /\ compared = 0 /\ randomized = 0 /\ result = Pending

FindNext == FindCall

SpecFind == FindInit /\ [][FindNext]_vars

\* ------------------------------------------------------- claims: getitem
\* A bound of an ordinal slice as Python resolves it against a sequence of
\* n elements: a negative bound counts from the end.
Resolved(b, n) == IF b.v < 0 THEN b.v + n ELSE b.v

\* The ids lo+1..hi that exist in a table of n rows, ascending.
IdRange(lo, hi, n) ==
    LET first == IF lo < 0 THEN 1 ELSE lo + 1
        last == IF hi > n THEN n ELSE hi
    IN IF last < first THEN <<>> ELSE [k \in 1..(last - first + 1) |-> first + k - 1]

IntSlice == index.type = "slice" /\ index.step = None
                /\ is_int(index.start) /\ is_int(index.stop)

\* C9: on an unfiltered table of N rows with ids 1..N, T[a:b] for integers
\* a and b is exactly the rows with ids a+1..b (negative bounds counted
\* from the end, clipped to the table), and for a < 0 it equals T[a+N:b].
C9_UnfilteredOrdinalSlice ==
    (out.set /\ IntSlice /\ filter = <<>>) =>
        LET N == Len(rows)
            a == index.start.v
            b == index.stop.v
        IN /\ out.kind = "rows"
           /\ out.ids = IdRange(Resolved(index.start, N), Resolved(index.stop, N), N)
           /\ a < 0 => out = Getitem(Slice(PyInt(a + N), index.stop, None))

\* C10: on every table, filtered or not, an ordinal slice whose resolved
\* stop is not above its resolved start is empty and raises nothing.
C10_EmptySliceIsEmpty ==
    (/\ out.set
     /\ index.type = "slice" /\ index.step = None
     /\ is_int_or_none(index.start) /\ is_int(index.stop)
     /\ Resolved(index.stop, length) <= Resolved(index.start, length)) =>
        /\ out.kind = "rows"
        /\ out.ids = <<>>

\* C11: every row a volume slice returns passes the table's filter and has
\* start <= volume < stop; a side is unconstrained only when its bound is
\* omitted, not when the bound is given as zero.
C11_VolumeSliceWithinBounds ==
    (/\ out.set
     /\ index.type = "slice" /\ index.step = None
     /\ is_float_or_none(index.start) /\ is_float_or_none(index.stop)) =>
        /\ out.kind = "rows"
        /\ \A k \in 1..Len(out.ids) :
              LET row == rows[out.ids[k]]
              IN /\ Satisfies(row, filter)
                 /\ index.start # None => index.start.v <= row.volume
                 /\ index.stop # None => row.volume < index.stop.v

\* C12: on every table, filtered or not, T[i] for 0 <= i < len(T) is the
\* row with id i + 1, and T[len(T)] raises IndexError.
C12_IntegerIndexWithinLength ==
    (out.set /\ index.type = "int") =>
        /\ (0 <= index.i /\ index.i < length) =>
               out.kind = "row" /\ out.ids = <<index.i + 1>>
        /\ index.i = length => out.kind = "IndexError"

\* The rows of the table that pass its filter, by id, in storage order.
Matching == Ids(SelectSeq(rows, LAMBDA r : Satisfies(r, filter)))

\* C15: on a filtered table T[start:stop] drops the first start matching
\* rows and returns the next stop - start of them (fewer when they run
\* out), or all the remaining ones when stop is absent; a stop that is, or
\* resolves to, 0 is a bound like any other.
C15_FilteredOrdinalSlice ==
    (/\ out.set
     /\ filter # <<>>
     /\ index.type = "slice" /\ index.step = None
     /\ is_int_or_none(index.start) /\ is_int_or_none(index.stop)
     /\ Resolved(index.start, length) >= 0
     /\ Resolved(index.stop, length) >= 0) =>
        LET from == Resolved(index.start, length)
            upto == IF index.stop = None \/ Resolved(index.stop, length) > length
                    THEN length ELSE Resolved(index.stop, length)
        IN /\ out.kind = "rows"
           /\ out.ids = IF upto <= from THEN <<>>
                        ELSE SubSeq(Matching, from + 1, upto)

\* C16: on a table with len(T) >= 1, filtered or not, T.random() returns
\* one row, and that row passes the table's filter; it never raises.
C16_RandomReturnsAMatchingRow ==
    (out.set /\ length >= 1) =>
        /\ out.kind = "row"
        /\ Satisfies(rows[out.ids[1]], filter)

\* ------------------------------------------------------------ claims: find
\* The rows of the table that satisfy both the predicate find was called
\* with and the table's filter.
Wanted == {rows[k] : k \in {j \in 1..Len(rows) :
                /\ Matches(rows[j], find_args.where)
                /\ Satisfies(rows[j], filter)}}

\* C14: for every predicate, disjunctions included, and every filter,
\* find returns only rows that satisfy the predicate and the filter, each
\* once: all of them without a limit, at most limit of them (as many as
\* there are) with one, in ascending order of the order_by column.
C14_FindReturnsPredicateAndFilter ==
    find_result.set =>
        LET got == find_result.rows
        IN /\ \A k \in 1..Len(got) : got[k] \in Wanted
           /\ \A j, k \in 1..Len(got) : j < k =>
                 /\ got[j] # got[k]
                 /\ got[j][find_args.order_by] <= got[k][find_args.order_by]
           /\ Len(got) = IF find_args.limit = None
                            \/ find_args.limit.v > Cardinality(Wanted)
                         THEN Cardinality(Wanted) ELSE find_args.limit.v

\* ---------------------------------------------------------- claims: lookup
\* The positions of the candidate tables that hold a row with the name.
Holders == {t \in 1..Len(tables) : \E k \in 1..Len(tables[t]) : tables[t][k].name = name}

\* The rows with the name in the candidate table at position t.
Named(t) == SelectSeq(tables[t], LAMBDA r : r.name = name)

\* C13: for every list of candidate tables, the empty one included, the
\* first table that holds the name decides: one row there gives its decoded
\* payload, several give ValueError, and no table after it is queried; when
\* no table holds the name the call raises KeyError.
C13_FirstHolderDecides ==
    lookup.set =>
        IF Holders = {} THEN lookup.kind = "KeyError"
        ELSE LET first == CHOOSE t \in Holders : \A u \in Holders : t <= u
             IN /\ lookup.queried = first
                /\ Len(Named(first)) = 1 =>
                      /\ lookup.kind = "payload"
                      /\ payload = Decoded(Named(first)[1].triangulation,
                                           Named(first)[1].perm)
                /\ Len(Named(first)) > 1 => lookup.kind = "ValueError"

\* --------------------------------------------------------- claims: codec
\* C7: with use_string and use_cobs both clear the triangulation body is
\* blob[1:] whatever num_cusps the header carries, in the row factory and
\* in OneCensusManifold alike.
C7_BodyIsBlobAfterHeader ==
    LET header == blob[1]
        plain == (header \div USE_STRING) % 4 = 0
    IN /\ (factory.set /\ plain) => factory.body = SubSeq(blob, 2, Len(blob))
       /\ (payload.set /\ plain) =>
              payload.triangulation_data = SubSeq(blob, 2, Len(blob))

\* The cusp permutation a decoded perm column stands for: absent means the
\* identity on num cusps.
PermOf(p, num) == IF p.present THEN p.val ELSE [n \in 1..num |-> n - 1]

\* C8 as stated: unpacking the packed sequence s gives s back, the absent
\* perm of a zero column being read as the identity.
C8_UnpackIsInverseOfPack ==
    /\ payload.set => PermOf(payload.perm, Len(s)) = s
    /\ factory.set => PermOf(factory.perm, Len(s)) = s

\* C8 amended: when the packed value is nonzero the decode yields exactly
\* s; when it is zero (every field 0, or no cusps) the decode yields no
\* perm at all, the identity, which is s only for num_cusps <= 1.
C8_UnpackNonzeroIsInverseOfPack ==
    \A d \in {payload, factory} : d.set =>
        /\ Pack(s) # 0 => d.perm.present /\ d.perm.val = s
        /\ Pack(s) = 0 =>
              /\ ~d.perm.present
              /\ PermOf(d.perm, Len(s)) = s <=> Len(s) <= 1

\* A sequence of three fields with a zero field in the middle round-trips.
C8_Witness ==
    /\ payload.set
    /\ factory.set
    /\ Len(s) = 3
    /\ s[2] = 0
    /\ s[3] # 0
    /\ payload.perm.val = s


\* ------------------------------------------------------ claims: identify
\* The rows that share the query's hash and pass the table's filter.
SiblingIds ==
    {k \in 1..Len(rows) : rows[k].hash = query.hash /\ Satisfies(rows[k], filter)}

\* The isometry test of the query against row k succeeds under the flag.
Passes(k) ==
    /\ ~raises[k]
    /\ IF extends_to_link THEN \E j \in 1..Len(isoms[k]) : isoms[k][j]
                          ELSE isoms[k] # <<>>

Done == pc = "done"

\* C1: identify returns NonMember (False) exactly when no row shares the
\* query's hash under the table's filter; when a sibling exists the result
\* is a sibling or Inconclusive (None), and None is never returned for an
\* empty sibling set.
C1_NonMemberIffNoSibling ==
    Done =>
        /\ result.kind = "False" <=> SiblingIds = {}
        /\ SiblingIds # {} =>
              \/ result.kind = "None"
              \/ result.kind = "row" /\ result.id \in SiblingIds
        /\ result.kind = "None" => SiblingIds # {}

\* A row with the query's hash exists but the filter hides it: NonMember.
C1_Witness ==
    /\ Done
    /\ result.kind = "False"
    /\ filter # <<>>
    /\ \E k \in 1..Len(rows) : rows[k].hash = query.hash

\* The query duplicates stored row r: same hash, same triangulation, and
\* its isometry test against r succeeds with an isometry (the identity)
\* that extends to the link.
Duplicates(r) ==
    /\ r \in SiblingIds
    /\ rows[r].tri = query.tri
    /\ ~raises[r]
    /\ \E j \in 1..Len(isoms[r]) : isoms[r][j]

\* C2 as stated: a query that duplicates row r gets r itself back, whatever
\* else the catalogue holds.
C2_ReturnsTheDuplicatedRow ==
    Done => \A r \in 1..Len(rows) :
                Duplicates(r) => result.kind = "row" /\ result.id = r

\* C2 amended: a query that duplicates row r gets a row back, never
\* NonMember or Inconclusive: the sibling of smallest id whose isometry test
\* succeeds, which is r itself exactly when no sibling of smaller id passes
\* the test.
C2_ReturnsFirstIsometricSibling ==
    Done => \A r \in 1..Len(rows) :
                Duplicates(r) =>
                    /\ result.kind = "row"
                    /\ result.id \in SiblingIds
                    /\ Passes(result.id)
                    /\ \A k \in SiblingIds : Passes(k) => result.id <= k
                    /\ result.id = r <=> \A k \in SiblingIds : k < r => ~Passes(k)

\* A duplicate of row 2 is identified as row 2 although row 1 shares its hash.
C2_Witness ==
    /\ Done
    /\ Duplicates(2)
    /\ 1 \in SiblingIds
    /\ result.kind = "row"
    /\ result.id = 2

\* C3: without extends_to_link, a sibling returned from the isometry phase
\* is the first one in ascending id order whose isometry test succeeds: no
\* earlier sibling passes, and no later sibling is tested.
C3_FirstMatchWins ==
    (Done /\ ~extends_to_link /\ result.kind = "row" /\ result.phase = "isometry") =>
        /\ result.id \in SiblingIds
        /\ Passes(result.id)
        /\ \A k \in SiblingIds : k < result.id => ~Passes(k)
        /\ \A k \in 1..Len(tested) : tested[k] <= result.id
        /\ \A j, k \in 1..Len(tested) : j < k => tested[j] < tested[k]
        /\ Range(tested) = {k \in SiblingIds : k <= result.id}

\* The first of two isometric siblings is returned and the second is never
\* tested.
C3_Witness ==
    /\ Done
    /\ ~extends_to_link
    /\ result.kind = "row"
    /\ result.phase = "isometry"
    /\ \E k \in SiblingIds : k > result.id /\ Passes(k)

\* C4: with extends_to_link, every row identify returns, from any phase,
\* has an isometry to the query that extends to the link.
C4_ReturnedRowExtendsToLink ==
    (Done /\ extends_to_link /\ result.kind = "row") =>
        \E j \in 1..Len(isoms[result.id]) : isoms[result.id][j]

\* C5: a RuntimeError of the isometry test on one sibling never leaves
\* identify and never ends the loop: whenever some sibling's test succeeds,
\* the first such sibling is returned from the isometry phase, whatever
\* the tests on the siblings before it did.
C5_RuntimeErrorIsSkipped ==
    Done =>
        /\ result.kind # "RuntimeError"
        /\ \A k \in SiblingIds :
              (Passes(k) /\ \E j \in SiblingIds : j < k /\ raises[j]) =>
                  /\ result.kind = "row"
                  /\ result.phase = "isometry"
                  /\ result.id <= k
                  /\ Passes(result.id)

\* The test on an earlier sibling raised and a later sibling was returned.
C5_Witness ==
    /\ Done
    /\ result.kind = "row"
    /\ result.phase = "isometry"
    /\ \E j \in SiblingIds : j < result.id /\ raises[j]

\* What holds of the fallback in every state: at most Rounds rounds, one
\* randomize and one comparison with every sibling per completed round,
\* entered only with every cusp complete, and Inconclusive only after the
\* last round.
FallbackBounded ==
    /\ round <= Rounds
    /\ randomized = round
    /\ pc = "fallback" => compared = round * Len(sibs)
    /\ (pc = "fallback" \/ randomized > 0 \/ compared > 0) =>
           \A k \in 1..Len(query.is_complete) : query.is_complete[k]
    /\ Done => result.kind \in {"row", "False", "None"}
    /\ (Done /\ result.kind = "None" /\ result.phase = "equality") =>
           /\ round = Rounds
           /\ randomized = Rounds
           /\ compared = Rounds * Len(sibs)
    /\ ~Done => result = Pending

\* C6: every identify call ends with exactly one outcome, and the fallback
\* is bounded as FallbackBounded says.
C6_TerminatesWithOneOutcome ==
    /\ []FallbackBounded
    /\ <>Done
    /\ [][pc = "done" => result' = result]_vars

\* All 100 rounds ran without an equal sibling: Inconclusive.
C6_Witness ==
    /\ Done
    /\ result.kind = "None"
    /\ result.phase = "equality"
    /\ round = Rounds

\* C17: no step of identify changes the caller's query object or the
\* table: randomize acts on the copy taken at the start of the call, so the
\* query's triangulation, and the table's rows, filter and length, are after
\* identify what they were before it.
C17_IdentifyLeavesCallerUnchanged ==
    [][/\ query' = query
       /\ rows' = rows /\ filter' = filter /\ length' = length]_vars

\* identify has returned after randomizing its copy away from the
\* triangulation the query still has.
C17_Witness ==
    /\ pc = "done"
    /\ randomized > 0
    /\ mfld.tri # query.tri
    /\ result.kind \in {"row", "None"}

====
